---- MODULE Spec2Model ----
(***************************************************************************)
(* Model of app.py, the Streamlit page of retirement-risk-prediction.       *)
(*                                                                         *)
(* One run of the script is a sequence of steps over the loaded tables:    *)
(* search, judgement, statistics, risk-only filter, result table, detail   *)
(* view, shortfall comparison, rebalancing projection, explanation, trend. *)
(* Streamlit reruns the script on every widget change (Rerun); the loaded  *)
(* tables are cached across runs.                                          *)
(*                                                                         *)
(* Representation.                                                         *)
(*  - A text value is a sequence of one-character strings, so that         *)
(*    str.contains, str[:4], split and the number formats are computed.    *)
(*  - A table is a sequence of rows; a row is a function from column names *)
(*    to values, so `col in row` is `col \in DOMAIN row`.                  *)
(*  - Column names are transliterated to ASCII:                            *)
(*      biz_no = business registration number, name = entity name,         *)
(*      exp_shortfall / act_shortfall = expected / actual shortfall,       *)
(*      base_year = reference year, reserve / min_reserve,                 *)
(*      eval_reserve / liab_reserve, paid / assessed = the six raw fields  *)
(*      of the historical table, reserve_ratio / compliance_ratio /        *)
(*      payment_ratio = the three derived ratios.                          *)
(*  - Probabilities are integers in units of 1/10000 (0.70 is 7000); the   *)
(*    decimal-to-float conversion is monotone, so comparisons agree.       *)
(*  - Money amounts are integers. Line 133 computes in binary floating     *)
(*    point; Balance computes the same expression exactly, with rationals  *)
(*    over arbitrary-precision naturals. On every total in Totals the two  *)
(*    agree after int() (evaluated with CPython for all 36 cells).         *)
(***************************************************************************)
EXTENDS Integers, Sequences, FiniteSets, TLC

VARIABLES
    columns,         \* df.columns after str.strip()
    df,              \* prediction table returned by load_data()
    raw_file,        \* rows of the historical csv file, as stored
    raw_df,          \* load_raw_data() cache: NotLoaded or Some(table)
    pc,              \* position of the script run
    company,         \* st.text_input value of this run
    result,          \* the frame named result
    result_obj,      \* the object result names: "df", "copy", or "none" yet
    stats,           \* the three st.metric counts, or None
    show_risk_only,  \* st.checkbox value of this run
    shown,           \* st.dataframe(result[show_cols]), or None
    row,             \* result.iloc[0] of the detail view, or None
    verdict,         \* detail view: metrics and st.error / st.success, or None
    comparison,      \* shortfall comparison block, or None
    df_bal,          \* projection table, or None
    explanation_lines, \* bullet lines of the explanation block, or None
    firm_data,       \* historical rows of the entity with ratios, or None
    chart_df,        \* frame given to st.line_chart, or None
    messages         \* st.warning calls of this run

vars == <<columns, df, raw_file, raw_df, pc, company, result, result_obj, stats,
          show_risk_only, shown, row, verdict, comparison, df_bal,
          explanation_lines, firm_data, chart_df, messages>>

run_vars == <<stats, show_risk_only, shown, row, verdict, comparison, df_bal,
              explanation_lines, firm_data, chart_df>>

\* An optional value is None or Some(v); Val reads the value.
None == <<>>
Some(v) == <<v>>
Val(o) == o[1]
NotLoaded == None

\* A blank cell of a text column.
NaN == <<"NaN">>

(***************************************************************************)
(* Bounds of the model.                                                    *)
(***************************************************************************)
MaxRows == 2
MaxHist == 3

(***************************************************************************)
(* Sequences and text.                                                     *)
(***************************************************************************)
Range(s) == {s[i] : i \in 1..Len(s)}

SeqsUpTo(S, n) == UNION {[1..k -> S] : k \in 0..n}

Restrict(r, cs) == [c \in cs |-> r[c]]

With(r, c, v) == [k \in DOMAIN r \cup {c} |-> IF k = c THEN v ELSE r[k]]

\* astype(str) on an object column: text stays, a blank cell reads "nan".
AsStr(v) == IF v = NaN THEN <<"n", "a", "n">> ELSE v

\* A pattern re.compile rejects: here, one with an unclosed parenthesis.
ValidPattern(pat) == "(" \notin Range(pat)

\* str.contains(pat) for a pattern of literal characters: re.search.
Contains(s, pat) ==
    \E i \in 1..(Len(s) + 1) :
        /\ i + Len(pat) - 1 <= Len(s)
        /\ SubSeq(s, i, i + Len(pat) - 1) = pat

\* == on two cells: a blank cell (NaN) equals nothing, itself included.
CellEq(a, b) == a # NaN /\ b # NaN /\ a = b

DigitChars == <<"0", "1", "2", "3", "4", "5", "6", "7", "8", "9">>

DigitOf(c) == CHOOSE d \in 0..9 : DigitChars[d + 1] = c

\* str(n) of a natural number.
RECURSIVE NatStr(_)
NatStr(n) ==
    IF n < 10 THEN <<DigitChars[n + 1]>>
    ELSE NatStr(n \div 10) \o <<DigitChars[(n % 10) + 1]>>

\* int(s) of a digit string.
RECURSIVE StrNat(_)
StrNat(s) ==
    IF s = <<>> THEN 0
    ELSE 10 * StrNat(SubSeq(s, 1, Len(s) - 1)) + DigitOf(s[Len(s)])

\* format(n, ",") of a natural number: groups of three digits.
RECURSIVE Grouped(_)
Grouped(s) ==
    IF Len(s) <= 3 THEN s
    ELSE Grouped(SubSeq(s, 1, Len(s) - 3)) \o <<",">>
         \o SubSeq(s, Len(s) - 2, Len(s))

\* f"{n:,} won" for an integer n.
FormatWon(n) ==
    (IF n < 0 THEN <<"-">> ELSE <<>>)
    \o Grouped(NatStr(IF n < 0 THEN -n ELSE n)) \o <<" ", "w", "o", "n">>

(***************************************************************************)
(* Arbitrary-precision naturals: little-endian sequences of limbs. They    *)
(* carry the exact value of line 133, which exceeds the 32-bit integers of   *)
(* TLC before the final division.                                          *)
(***************************************************************************)
Base == 10 * 1000

RECURSIVE BigFromNat(_)
BigFromNat(n) ==
    IF n < Base THEN <<n>> ELSE <<n % Base>> \o BigFromNat(n \div Base)

RECURSIVE BigToNat(_)
BigToNat(x) == IF x = <<>> THEN 0 ELSE Head(x) + Base * BigToNat(Tail(x))

RECURSIVE BigMulCarry(_, _, _)
BigMulCarry(x, k, c) ==
    IF x = <<>> THEN (IF c = 0 THEN <<>> ELSE BigFromNat(c))
    ELSE LET v == Head(x) * k + c
         IN  <<v % Base>> \o BigMulCarry(Tail(x), k, v \div Base)

BigMul(x, k) == BigMulCarry(x, k, 0)

RECURSIVE BigAddCarry(_, _, _)
BigAddCarry(x, y, c) ==
    IF x = <<>> /\ y = <<>> THEN (IF c = 0 THEN <<>> ELSE <<c>>)
    ELSE LET a == IF x = <<>> THEN 0 ELSE Head(x)
             b == IF y = <<>> THEN 0 ELSE Head(y)
             v == a + b + c
         IN  <<v % Base>>
             \o BigAddCarry(IF x = <<>> THEN <<>> ELSE Tail(x),
                            IF y = <<>> THEN <<>> ELSE Tail(y), v \div Base)

BigAdd(x, y) == BigAddCarry(x, y, 0)

\* Quotient and remainder of x by a small k, most significant limb first.
RECURSIVE BigDivRem(_, _)
BigDivRem(x, k) ==
    IF x = <<>> THEN [q |-> <<>>, r |-> 0]
    ELSE LET hi  == BigDivRem(Tail(x), k)
             cur == hi.r * Base + Head(x)
         IN  [q |-> <<cur \div k>> \o hi.q, r |-> cur % k]

BigDiv(x, k) == BigDivRem(x, k).q

RECURSIVE BigMulPow(_, _, _)
BigMulPow(x, k, m) == IF m = 0 THEN x ELSE BigMulPow(BigMul(x, k), k, m - 1)

RECURSIVE BigDivPow(_, _, _)
BigDivPow(x, k, m) == IF m = 0 THEN x ELSE BigDivPow(BigDiv(x, k), k, m - 1)

RECURSIVE BigTrim(_)
BigTrim(x) ==
    IF x # <<>> /\ x[Len(x)] = 0 THEN BigTrim(SubSeq(x, 1, Len(x) - 1)) ELSE x

RECURSIVE BigLeqTrimmed(_, _)
BigLeqTrimmed(x, y) ==
    IF Len(x) # Len(y) THEN Len(x) < Len(y)
    ELSE IF x = <<>> THEN TRUE
    ELSE IF x[Len(x)] # y[Len(y)] THEN x[Len(x)] < y[Len(y)]
    ELSE BigLeqTrimmed(SubSeq(x, 1, Len(x) - 1), SubSeq(y, 1, Len(y) - 1))

BigLeq(x, y) == BigLeqTrimmed(BigTrim(x), BigTrim(y))

(***************************************************************************)
(* The pure functions of the script.                                       *)
(***************************************************************************)

\* Line 48: the 70% threshold, in units of 1/10000.
RiskThreshold == 7000

JudgementStrict(p) == IF p > RiskThreshold THEN 0 ELSE 1

\* Line 48: lambda r: 0 if r["p_risk"] >= 0.7 else 1 (0 is risk, 1 is normal).
Judgement(p) == IF p >= RiskThreshold THEN 0 ELSE 1

\* Lines 47-49: result.apply(..., axis=1) attached as final_judgement. On an
\* empty frame apply returns an empty column and the assignment succeeds.
Judged(t) ==
    [i \in 1..Len(t) |-> With(t[i], "final_judgement", Judgement(t[i]["p_risk"]))]

\* Lines 35-38: the rows whose number or name, as text, contains the pattern.
Matches(r, pat) ==
    \/ Contains(AsStr(r["biz_no"]), pat)
    \/ Contains(AsStr(r["name"]), pat)

SearchResult(t, pat) ==
    IF pat = <<>> THEN t
    ELSE LET Hit(r) == Matches(r, pat) IN SelectSeq(t, Hit)

ResultObjectAlias(pat) == IF pat = <<>> THEN "df" ELSE "copy"

\* Lines 35 and 42: df[mask] and df.copy() both build a new frame.
ResultObject(pat) == "copy"

IsRisk(r) == r["final_judgement"] = 0
IsNormal(r) == r["final_judgement"] = 1

\* Lines 54-56.
Statistics(t) ==
    [total  |-> Len(t),
     risk   |-> Len(SelectSeq(t, IsRisk)),
     normal |-> Len(SelectSeq(t, IsNormal))]

RiskRowsKeepAll(t) == t

\* Line 61: result[result["final_judgement"]==0].
RiskRows(t) == SelectSeq(t, IsRisk)

\* Lines 65-68.
ShowCols(cs) ==
    <<"biz_no", "name", "p_risk", "p_normal", "final_judgement">>
    \o (IF "exp_shortfall" \in cs THEN <<"exp_shortfall">> ELSE <<>>)
    \o (IF "act_shortfall" \in cs THEN <<"act_shortfall">> ELSE <<>>)

\* Line 70: result[show_cols].
Shown(t, cs) ==
    [cols |-> ShowCols(cs),
     rows |-> [i \in 1..Len(t) |-> Restrict(t[i], Range(ShowCols(cs)))]]

\* Lines 86-90.
VerdictBox(r) == IF r["final_judgement"] = 0 THEN "error_risk" ELSE "success_normal"

\* Line 95.
ShortfallPresent(r) ==
    "exp_shortfall" \in DOMAIN r /\ "act_shortfall" \in DOMAIN r

DiffReversed(r) == r["exp_shortfall"] - r["act_shortfall"]

\* Line 103.
Diff(r) == r["act_shortfall"] - r["exp_shortfall"]

Abs(n) == IF n < 0 THEN -n ELSE n

\* Lines 96-109.
Comparison(r) ==
    LET diff == Diff(r)
    IN  [expected |-> FormatWon(r["exp_shortfall"]),
         actual   |-> FormatWon(r["act_shortfall"]),
         diff     |-> diff,
         box      |-> IF diff > 0 THEN "error_actual_larger"
                      ELSE IF diff < 0 THEN "success_actual_smaller"
                      ELSE "info_equal",
         amount   |-> IF diff > 0 THEN FormatWon(diff)
                      ELSE IF diff < 0 THEN FormatWon(Abs(diff))
                      ELSE None]

ExpectedNotNegative(r) == r["exp_shortfall"] >= 0

\* Line 114.
ExpectedPositive(r) == r["exp_shortfall"] > 0

\* Lines 121-125: the scenarios in dictionary order, as tenths of the total
\* in the principal-guaranteed and the non-principal bucket.
Scenarios ==
    <<[name |-> "conservative", principal |-> 7, non_principal |-> 3],
      [name |-> "balanced",     principal |-> 5, non_principal |-> 5],
      [name |-> "aggressive",   principal |-> 3, non_principal |-> 7]>>

\* Line 127.
Months == [m \in 1..12 |-> m]

BalanceRatesSwapped(total, sc, m) ==
    BigToNat(BigDiv(BigDivPow(
        BigAdd(BigMulPow(BigMul(BigFromNat(total), sc.principal), 242, m),
               BigMulPow(BigMul(BigFromNat(total), sc.non_principal), 241, m)),
        240, m), 10))

\* Lines 133-134: int(bal), where 1 + 0.05/12 = 241/240, 1 + 0.10/12 = 242/240
\* and bal = total * (p * 241^m + q * 242^m) / (10 * 240^m) for the tenths p, q.
\* bal is positive, so int() is the floor.
Balance(total, sc, m) ==
    BigToNat(BigDiv(BigDivPow(
        BigAdd(BigMulPow(BigMul(BigFromNat(total), sc.principal), 241, m),
               BigMulPow(BigMul(BigFromNat(total), sc.non_principal), 242, m)),
        240, m), 10))

\* Lines 119-137: the month column, then one column of formatted balances
\* per scenario.
Projection(total) ==
    [cols |-> <<"n_months">> \o [i \in 1..Len(Scenarios) |-> Scenarios[i].name],
     data |-> [c \in {"n_months"} \cup {Scenarios[i].name : i \in 1..Len(Scenarios)} |->
                 IF c = "n_months" THEN Months
                 ELSE LET sc == CHOOSE x \in Range(Scenarios) : x.name = c
                      IN  [i \in 1..Len(Months) |->
                             FormatWon(Balance(total, sc, Months[i]))]]]

\* str.split(sep).
RECURSIVE Split(_, _)
Split(s, sep) ==
    LET at == {i \in 1..Len(s) : /\ i + Len(sep) - 1 <= Len(s)
                                 /\ SubSeq(s, i, i + Len(sep) - 1) = sep}
    IN  IF at = {} THEN <<s>>
        ELSE LET i == CHOOSE j \in at : \A k \in at : j <= k
             IN  <<SubSeq(s, 1, i - 1)>>
                 \o Split(SubSeq(s, i + Len(sep), Len(s)), sep)

\* str.strip() of blanks.
RECURSIVE Strip(_)
Strip(s) ==
    IF s # <<>> /\ s[1] = " " THEN Strip(Tail(s))
    ELSE IF s # <<>> /\ s[Len(s)] = " " THEN Strip(SubSeq(s, 1, Len(s) - 1))
    ELSE s

NotBlank(s) == s # <<>>

\* Lines 144-147: the stripped, non-empty parts of str(explanation).
ExplanationLines(r) ==
    LET parts == Split(AsStr(r["explanation"]), <<" ", "/", " ">>)
    IN  SelectSeq([i \in 1..Len(parts) |-> Strip(parts[i])], NotBlank)

\* Line 159: astype(str).str[:4].astype(int).
YearOf(v) ==
    LET text == NatStr(v)
    IN  StrNat(SubSeq(text, 1, IF Len(text) < 4 THEN Len(text) ELSE 4))

\* Lines 156-160.
LoadRawData(file) ==
    [i \in 1..Len(file) |-> [file[i] EXCEPT !["base_year"] = YearOf(@)]]

\* Lines 164-167.
FirmRows(raw, r) ==
    LET ByNumber(x) == CellEq(x["biz_no"], r["biz_no"])
        ByName(x)   == CellEq(x["name"], r["name"])
    IN  IF "biz_no" \in DOMAIN r THEN SelectSeq(raw, ByNumber)
        ELSE SelectSeq(raw, ByName)

\* A float division of two amounts: the exact quotient n/d as a pair, or the
\* non-finite value numpy yields for a zero denominator.
Ratio(n, d) ==
    IF d # 0 THEN <<"ratio", n, d>>
    ELSE IF n = 0 THEN <<"nan">>
    ELSE IF n > 0 THEN <<"inf">> ELSE <<"-inf">>

\* Lines 170-172.
WithRatios(t) ==
    [i \in 1..Len(t) |->
        With(With(With(t[i],
            "reserve_ratio", Ratio(t[i]["reserve"], t[i]["min_reserve"])),
            "compliance_ratio", Ratio(t[i]["eval_reserve"], t[i]["liab_reserve"])),
            "payment_ratio", Ratio(t[i]["paid"], t[i]["assessed"]))]

\* Line 174: the year and the three ratios, in the order of firm_data.
ChartDf(t) ==
    [i \in 1..Len(t) |->
        Restrict(t[i], {"base_year", "reserve_ratio", "compliance_ratio",
                        "payment_ratio"})]

(***************************************************************************)
(* The tables a session can load.                                          *)
(***************************************************************************)
BaseCols == {"biz_no", "name", "p_risk", "p_normal", "explanation"}

ColumnSets == {BaseCols \cup extra : extra \in SUBSET {"exp_shortfall", "act_shortfall"}}

AllCols == BaseCols \cup {"exp_shortfall", "act_shortfall"}

Entities ==
    {[biz_no |-> <<"1", "2">>, name |-> <<"a", "b">>,
      explanation |-> <<"x", " ", "/", " ", "y">>],
     [biz_no |-> <<"2", "1">>, name |-> <<"b", "a">>, explanation |-> NaN],
     [biz_no |-> NaN, name |-> <<"a", "b">>,
      explanation |-> <<"x", " ", "/", " ", " ", "/", " ">>]}

PredRow(e, p, x, a) ==
    [biz_no |-> e.biz_no, name |-> e.name, p_risk |-> p, p_normal |-> 10000 - p,
     explanation |-> e.explanation, exp_shortfall |-> x, act_shortfall |-> a]

\* p_risk values: the two sides of the threshold in the general tables, a
\* grid over [0, 1] with both neighbours of 0.70, and two values outside.
PRiskPair == {6999, 7000}
PRiskOutside == {-1000, 15000}
PRiskGrid == {500 * k : k \in 0..20} \cup {6999, 7001}

ExpectedSet == {-500, 0, 1, 1000, 2400, 1000000}
ActualSet == {800, 1000, 1500}

\* Expected shortfalls that reach the projector.
Totals == {x \in ExpectedSet : x > 0}

HistRow(b, n, y, zero) ==
    [biz_no |-> b, name |-> n, base_year |-> y,
     reserve |-> 90, min_reserve |-> 100,
     eval_reserve |-> 80, liab_reserve |-> IF zero THEN 0 ELSE 100,
     paid |-> IF zero THEN 0 ELSE 50, assessed |-> IF zero THEN 0 ELSE 50]

HistRows ==
    {HistRow(<<"1", "2">>, <<"a", "b">>, 2014, FALSE),
     HistRow(<<"1", "2">>, <<"a", "b">>, 201512, FALSE),
     HistRow(<<"1", "2">>, <<"a", "b">>, 2016, TRUE),
     HistRow(<<"2", "1">>, <<"b", "a">>, 2014, FALSE)}

HistSample ==
    <<HistRow(<<"1", "2">>, <<"a", "b">>, 2016, TRUE),
      HistRow(<<"1", "2">>, <<"a", "b">>, 2014, FALSE),
      HistRow(<<"1", "2">>, <<"a", "b">>, 201512, FALSE)>>

FirstEntity == CHOOSE e \in Entities : e.biz_no = <<"1", "2">>

\* Any table of up to MaxRows entities on either side of the threshold.
InitTables ==
    /\ columns \in ColumnSets
    /\ \E t \in SeqsUpTo({PredRow(e, p, 1000, 1500) : e \in Entities, p \in PRiskPair},
                         MaxRows) :
          df = [i \in 1..Len(t) |-> Restrict(t[i], columns)]
    /\ raw_file = HistSample

\* One entity, any probability.
InitJudge ==
    /\ columns = AllCols
    /\ \E p \in PRiskGrid \cup PRiskOutside :
          df = <<PredRow(FirstEntity, p, 1000, 1500)>>
    /\ raw_file = <<>>

\* One entity at risk, any pair of shortfalls, any presence of their columns.
InitShortfall ==
    /\ columns \in ColumnSets
    /\ \E x \in ExpectedSet, a \in ActualSet :
          df = <<Restrict(PredRow(FirstEntity, 7000, x, a), columns)>>
    /\ raw_file = <<>>

\* One entity, any historical file of up to MaxHist rows.
InitTrend ==
    /\ columns = AllCols
    /\ \E e \in Entities : df = <<PredRow(e, 7000, 1000, 1500)>>
    /\ raw_file \in SeqsUpTo(HistRows, MaxHist)

\* The state when the script starts: nothing loaded by load_raw_data() yet.
InitRun ==
    /\ raw_df = NotLoaded
    /\ pc = "search"
    /\ company = <<>>
    /\ result = <<>>
    /\ result_obj = "none"
    /\ stats = None
    /\ show_risk_only = FALSE
    /\ shown = None
    /\ row = None
    /\ verdict = None
    /\ comparison = None
    /\ df_bal = None
    /\ explanation_lines = None
    /\ firm_data = None
    /\ chart_df = None
    /\ messages = {}

Init == InitTables /\ InitRun

InitOfJudge == InitJudge /\ InitRun

InitOfShortfall == InitShortfall /\ InitRun

InitOfTrend == InitTrend /\ InitRun

(***************************************************************************)
(* The steps of one run of the script.                                     *)
(***************************************************************************)
SearchKeys ==
    {<<>>, <<"2">>, <<"a", "b">>, <<"a">>, <<"9">>, <<"(">>}

\* Lines 32-42. An invalid pattern raises re.error and ends the run.
Search(key) ==
    /\ pc = "search"
    /\ company' = key
    /\ IF key # <<>> /\ ~ValidPattern(key)
       THEN /\ pc' = "error"
            /\ UNCHANGED <<result, result_obj, messages>>
       ELSE /\ pc' = "judge"
            /\ result' = SearchResult(df, key)
            /\ result_obj' = ResultObject(key)
            /\ messages' = IF key # <<>> /\ SearchResult(df, key) = <<>>
                           THEN {"no_search_result"} ELSE {}
    /\ UNCHANGED <<columns, df, raw_file, raw_df>>
    /\ UNCHANGED run_vars

\* Lines 47-49. The column is written into the object result names.
Judge ==
    /\ pc = "judge"
    /\ result' = Judged(result)
    /\ df' = IF result_obj = "df" THEN Judged(result) ELSE df
    /\ pc' = "stats"
    /\ UNCHANGED <<columns, raw_file, raw_df, company, result_obj, messages>>
    /\ UNCHANGED run_vars

\* Lines 52-56.
ShowStatistics ==
    /\ pc = "stats"
    /\ stats' = Some(Statistics(result))
    /\ pc' = "filter"
    /\ UNCHANGED <<columns, df, raw_file, raw_df, company, result, result_obj,
                   messages, show_risk_only, shown, row, verdict, comparison,
                   df_bal, explanation_lines, firm_data, chart_df>>

\* Lines 59-61.
FilterRisk(checked) ==
    /\ pc = "filter"
    /\ show_risk_only' = checked
    /\ result' = IF checked THEN RiskRows(result) ELSE result
    /\ result_obj' = IF checked THEN "copy" ELSE result_obj
    /\ pc' = "table"
    /\ UNCHANGED <<columns, df, raw_file, raw_df, company, messages, stats,
                   shown, row, verdict, comparison, df_bal, explanation_lines,
                   firm_data, chart_df>>

\* Lines 64-70.
ShowTable ==
    /\ pc = "table"
    /\ shown' = Some(Shown(result, columns \cup {"final_judgement"}))
    /\ pc' = "detail"
    /\ UNCHANGED <<columns, df, raw_file, raw_df, company, result, result_obj,
                   messages, stats, show_risk_only, row, verdict, comparison,
                   df_bal, explanation_lines, firm_data, chart_df>>

\* Lines 75-90. Everything below line 75 is inside `if not result.empty`.
Detail ==
    /\ pc = "detail"
    /\ IF result = <<>>
       THEN /\ pc' = "done"
            /\ UNCHANGED <<row, verdict>>
       ELSE /\ pc' = "shortfall"
            /\ row' = Some(result[1])
            /\ verdict' = Some([risk   |-> result[1]["p_risk"],
                                normal |-> result[1]["p_normal"],
                                box    |-> VerdictBox(result[1])])
    /\ UNCHANGED <<columns, df, raw_file, raw_df, company, result, result_obj,
                   messages, stats, show_risk_only, shown, comparison, df_bal,
                   explanation_lines, firm_data, chart_df>>

\* Lines 95-109.
CompareShortfall ==
    /\ pc = "shortfall"
    /\ comparison' = IF ShortfallPresent(Val(row))
                     THEN Some(Comparison(Val(row))) ELSE None
    /\ pc' = "project"
    /\ UNCHANGED <<columns, df, raw_file, raw_df, company, result, result_obj,
                   messages, stats, show_risk_only, shown, row, verdict, df_bal,
                   explanation_lines, firm_data, chart_df>>

\* Lines 114-137, nested in the block of line 95.
Project ==
    /\ pc = "project"
    /\ df_bal' = IF ShortfallPresent(Val(row)) /\ ExpectedPositive(Val(row))
                 THEN Some(Projection(Val(row)["exp_shortfall"])) ELSE None
    /\ pc' = "explain"
    /\ UNCHANGED <<columns, df, raw_file, raw_df, company, result, result_obj,
                   messages, stats, show_risk_only, shown, row, verdict,
                   comparison, explanation_lines, firm_data, chart_df>>

\* Lines 142-147.
Explain ==
    /\ pc = "explain"
    /\ explanation_lines' = IF Val(row)["final_judgement"] = 0
                            THEN Some(ExplanationLines(Val(row))) ELSE None
    /\ pc' = "trend"
    /\ UNCHANGED <<columns, df, raw_file, raw_df, company, result, result_obj,
                   messages, stats, show_risk_only, shown, row, verdict,
                   comparison, df_bal, firm_data, chart_df>>

\* Lines 152-178. load_raw_data() reads the file on its first call only.
Trend ==
    /\ pc = "trend"
    /\ LET raw  == IF raw_df = NotLoaded THEN LoadRawData(raw_file) ELSE Val(raw_df)
           firm == FirmRows(raw, Val(row))
       IN  /\ raw_df' = Some(raw)
           /\ IF firm # <<>>
              THEN /\ firm_data' = Some(WithRatios(firm))
                   /\ chart_df' = Some(ChartDf(WithRatios(firm)))
                   /\ UNCHANGED messages
              ELSE /\ firm_data' = Some(firm)
                   /\ chart_df' = None
                   /\ messages' = messages \cup {"no_history"}
    /\ pc' = "done"
    /\ UNCHANGED <<columns, df, raw_file, company, result, result_obj, stats,
                   show_risk_only, shown, row, verdict, comparison, df_bal,
                   explanation_lines>>

\* A widget change: Streamlit runs the script again from the top; the cached
\* loaders return the tables they returned before.
Rerun ==
    /\ pc \in {"done", "error"}
    /\ pc' = "search"
    /\ company' = <<>>
    /\ result' = <<>>
    /\ result_obj' = "none"
    /\ stats' = None
    /\ show_risk_only' = FALSE
    /\ shown' = None
    /\ row' = None
    /\ verdict' = None
    /\ comparison' = None
    /\ df_bal' = None
    /\ explanation_lines' = None
    /\ firm_data' = None
    /\ chart_df' = None
    /\ messages' = {}
    /\ UNCHANGED <<columns, df, raw_file, raw_df>>

Next ==
    \/ \E key \in SearchKeys : Search(key)
    \/ Judge
    \/ ShowStatistics
    \/ \E checked \in BOOLEAN : FilterRisk(checked)
    \/ ShowTable
    \/ Detail
    \/ CompareShortfall
    \/ Project
    \/ Explain
    \/ Trend
    \/ Rerun

Spec == Init /\ [][Next]_vars

SpecJudge == InitOfJudge /\ [][Next]_vars

SpecShortfall == InitOfShortfall /\ [][Next]_vars

SpecTrend == InitOfTrend /\ [][Next]_vars

(***************************************************************************)
(* Properties.                                                             *)
(***************************************************************************)
Judging == pc \in {"stats", "filter", "table", "detail", "shortfall", "project",
                   "explain", "trend", "done"}

Filtered == pc \in {"table", "detail", "shortfall", "project", "explain",
                    "trend", "done"}

InUnitRange(p) == 0 <= p /\ p <= 10000

\* C1: every row with p_risk in [0, 1] gets the verdict RISK (0) exactly when
\* p_risk >= 0.70 and NORMAL (1) otherwise, 0.70 giving RISK and 0.6999
\* NORMAL; the detail view shows the box of that verdict.
C1_JudgementRule ==
    /\ Judging =>
         \A i \in 1..Len(result) :
            LET r == result[i]
            IN  InUnitRange(r["p_risk"]) =>
                  /\ r["final_judgement"] \in {0, 1}
                  /\ r["final_judgement"] = 0 <=> r["p_risk"] >= 7000
                  /\ r["p_risk"] = 7000 => r["final_judgement"] = 0
                  /\ r["p_risk"] = 6999 => r["final_judgement"] = 1
    /\ verdict # None /\ InUnitRange(Val(verdict).risk) =>
         (Val(verdict).box = "error_risk" <=> Val(verdict).risk >= 7000)

C1_Witness ==
    /\ pc = "done"
    /\ row # None
    /\ Val(row)["p_risk"] = 7000
    /\ Val(row)["final_judgement"] = 0
    /\ Val(verdict).box = "error_risk"

\* C2: the comparison computes delta = actual - expected and shows the
\* "actual exceeds expected" box when delta > 0, the "actual below expected"
\* box when delta < 0 and the "equal" box when delta = 0; (1000, 1500) gives
\* 500 and exceeds, (1000, 1000) gives 0 and equal, (1000, 800) gives -200
\* and below.
C2_ShortfallComparison ==
    comparison # None =>
        LET c == Val(comparison)
            e == Val(row)["exp_shortfall"]
            a == Val(row)["act_shortfall"]
        IN  /\ c.diff + e = a
            /\ c.box = "error_actual_larger" <=> a > e
            /\ c.box = "success_actual_smaller" <=> a < e
            /\ c.box = "info_equal" <=> a = e
            /\ e = 1000 /\ a = 1500 => c.diff = 500 /\ c.box = "error_actual_larger"
            /\ e = 1000 /\ a = 1000 => c.diff = 0 /\ c.box = "info_equal"
            /\ e = 1000 /\ a = 800 => c.diff = -200 /\ c.box = "success_actual_smaller"

C2_Witness ==
    /\ comparison # None
    /\ Val(row)["exp_shortfall"] = 1000
    /\ Val(row)["act_shortfall"] = 800
    /\ Val(comparison).diff = -200
    /\ Val(comparison).box = "success_actual_smaller"

\* C3: a comparison is produced only when both shortfall columns are present
\* on the entity, and a projection only when the comparison was produced and
\* the expected shortfall is > 0.
C3_Gates ==
    /\ comparison # None =>
         {"exp_shortfall", "act_shortfall"} \subseteq DOMAIN Val(row)
    /\ df_bal # None =>
         /\ comparison # None
         /\ Val(row)["exp_shortfall"] > 0

C3_Witness ==
    /\ pc = "done"
    /\ comparison # None
    /\ Val(row)["exp_shortfall"] <= 0
    /\ df_bal = None

IsDigit(c) == c \in Range(DigitChars)

\* The amount of a formatted balance.
ParseWon(s) == StrNat(SelectSeq(s, IsDigit))

\* v = floor(total * (p * 241^m + q * 242^m) / (10 * 240^m)), stated with
\* products only.
IsTruncatedBalance(v, total, p, q, m) ==
    LET num == BigAdd(BigMulPow(BigMul(BigFromNat(total), p), 241, m),
                      BigMulPow(BigMul(BigFromNat(total), q), 242, m))
        den == BigMulPow(BigFromNat(10), 240, m)
        lo  == BigMulPow(BigMul(BigFromNat(v), 10), 240, m)
    IN  /\ BigLeq(lo, num)
        /\ ~BigLeq(BigAdd(lo, den), num)

\* int(bal) of line 133 evaluated by CPython for total = 1,000,000.
ReferenceBalances ==
    [conservative |->
        <<1005416, 1010866, 1016349, 1021865, 1027415, 1032999,
          1038617, 1044269, 1049956, 1055678, 1061435, 1067227>>,
     balanced |->
        <<1006250, 1012543, 1018880, 1025261, 1031687, 1038157,
          1044672, 1051233, 1057840, 1064492, 1071191, 1077937>>,
     aggressive |->
        <<1007083, 1014220, 1021411, 1028657, 1035959, 1043315,
          1050728, 1058197, 1065723, 1073307, 1080948, 1088647>>]

ClaimedFractions ==
    [conservative |-> <<7, 3>>, balanced |-> <<5, 5>>, aggressive |-> <<3, 7>>]

Years(t) == [i \in 1..Len(t) |-> t[i]["base_year"]]

\* C5: the series given to the chart is ordered by year ascending, whatever
\* the order of the rows in the source.
C5_TrendAscending ==
    chart_df # None =>
        \A i, j \in 1..Len(Val(chart_df)) :
            i < j => Years(Val(chart_df))[i] <= Years(Val(chart_df))[j]

HistCols == {"biz_no", "name", "base_year", "reserve", "min_reserve",
             "eval_reserve", "liab_reserve", "paid", "assessed"}

SourceRows(t) == [i \in 1..Len(t) |-> Restrict(t[i], HistCols)]

\* C6: the historical rows of the entity are those with its business
\* registration number when the number is present and not blank, and those
\* with exactly its name otherwise.
C6_LookupByNumberOrName ==
    firm_data # None =>
        LET r == Val(row)
            SameNumber(x) == x["biz_no"] = r["biz_no"]
            SameName(x)   == x["name"] = r["name"]
        IN  SourceRows(Val(firm_data)) =
               IF "biz_no" \in DOMAIN r /\ r["biz_no"] # NaN
               THEN SelectSeq(Val(raw_df), SameNumber)
               ELSE SelectSeq(Val(raw_df), SameName)

\* C7: a row whose p_risk is outside [0, 1] gets no verdict.
C7_InvalidProbabilityRejected ==
    Judging =>
        \A i \in 1..Len(result) :
            ~InUnitRange(result[i]["p_risk"]) =>
                "final_judgement" \notin DOMAIN result[i]

\* The table holds entities, and the key occurs, as typed, in the number or
\* the name of none of them.
LookupMiss ==
    /\ company # <<>>
    /\ df # <<>>
    /\ \A i \in 1..Len(df) :
          LET text(v) == IF v = NaN THEN <<"n", "a", "n">> ELSE v
          IN  /\ ~Contains(text(df[i]["biz_no"]), company)
              /\ ~Contains(text(df[i]["name"]), company)

EmptyRunShown ==
    /\ stats = Some([total |-> 0, risk |-> 0, normal |-> 0])
    /\ Val(shown).rows = <<>>
    /\ row = None
    /\ verdict = None
    /\ comparison = None
    /\ df_bal = None
    /\ chart_df = None

\* C8: a lookup miss is an empty-result state, never an error: a key that
\* matches no entity gives an empty result on which judgement, statistics and
\* table complete with no detail view, and an entity without historical rows
\* gives the empty series and the "no historical data" warning.
C8_LookupMissIsEmptyState ==
    /\ pc # "search" /\ LookupMiss =>
         /\ pc # "error"
         /\ result = <<>>
         /\ "no_search_result" \in messages
         /\ pc \in {"judge", "stats", "filter", "table", "detail", "done"}
         /\ pc = "done" => EmptyRunShown
    /\ pc = "done" /\ row # None /\ FirmRows(Val(raw_df), Val(row)) = <<>> =>
         /\ firm_data = Some(<<>>)
         /\ ChartDf(WithRatios(Val(firm_data))) = ChartDf(WithRatios(<<>>))
         /\ chart_df = None
         /\ "no_history" \in messages

\* C8 for the keys that are valid patterns.
C8_ValidPatternMiss == ValidPattern(company) => C8_LookupMissIsEmptyState

C8_ValidPatternWitness ==
    /\ pc = "done"
    /\ LookupMiss
    /\ ValidPattern(company)
    /\ EmptyRunShown

\* C9: no step of a run changes the loaded prediction table or the loaded
\* historical table; the verdict column and the ratio columns exist only in
\* the derived frames.
C9_LoadedTablesUnchanged ==
    [][/\ df' = df
       /\ columns' = columns
       /\ raw_file' = raw_file
       /\ raw_df # NotLoaded => raw_df' = raw_df
       /\ \A i \in 1..Len(df') : DOMAIN df'[i] = columns
       /\ raw_df' # NotLoaded =>
             \A i \in 1..Len(Val(raw_df')) : DOMAIN Val(raw_df')[i] = HistCols]_vars

C9_Witness ==
    /\ pc = "done"
    /\ company = <<>>
    /\ result # <<>>
    /\ \A i \in 1..Len(result) : "final_judgement" \in DOMAIN result[i]
    /\ \A i \in 1..Len(df) : "final_judgement" \notin DOMAIN df[i]
    /\ firm_data # None /\ Val(firm_data) # <<>>
    /\ "reserve_ratio" \in DOMAIN Val(firm_data)[1]
    /\ "reserve_ratio" \notin DOMAIN Val(raw_df)[1]

MatchCount ==
    Cardinality({i \in 1..Len(df) : company = <<>> \/ Matches(df[i], company)})

RiskCount ==
    Cardinality({i \in 1..Len(df) :
                    /\ company = <<>> \/ Matches(df[i], company)
                    /\ df[i]["p_risk"] >= 7000})

\* C10: the risk count plus the normal count is the total count, the number
\* of rows matching the search; the counts are those of the unfiltered result
\* whatever the risk-only setting; with the setting on, every row of the
\* table, and the entity of the detail view, has the verdict RISK.
C10_CountsAndRiskOnly ==
    /\ stats # None =>
         /\ Val(stats).risk + Val(stats).normal = Val(stats).total
         /\ Val(stats).total = MatchCount
         /\ Val(stats).risk = RiskCount
    /\ Filtered /\ show_risk_only =>
         /\ \A i \in 1..Len(result) : result[i]["final_judgement"] = 0
         /\ Len(result) = RiskCount
         /\ shown # None =>
               \A i \in 1..Len(Val(shown).rows) :
                   Val(shown).rows[i]["final_judgement"] = 0
         /\ row # None => Val(row)["final_judgement"] = 0
         /\ verdict # None => Val(verdict).box = "error_risk"
    /\ Filtered /\ ~show_risk_only => Len(result) = MatchCount

C10_Witness ==
    /\ pc = "done"
    /\ show_risk_only
    /\ Val(stats).risk = 1
    /\ Val(stats).normal = 1
    /\ Len(Val(shown).rows) = 1
    /\ Val(row)["final_judgement"] = 0

====
